---- MODULE Spec2Model ----
(***************************************************************************)
(* Model of src/example.py: the sequential evaluation pipeline             *)
(*   main: init LLM -> run commands -> create_task_folder_and_metadata ->  *)
(*         load_task_data -> load_implementation_reports ->                *)
(*         analyze_implementations -> update_metadata.                     *)
(*                                                                         *)
(* Python values (everything json.load / json.loads can produce) are       *)
(* tagged records [t |-> type, v |-> payload]:                             *)
(*   dict -> function from key strings to values, list -> sequence,        *)
(*   str -> string, int -> integer, bool -> BOOLEAN, None -> "None".       *)
(* A JSON file on disk is modelled by the document it holds; NoFile is a   *)
(* path that does not exist.                                               *)
(*                                                                         *)
(* A text (the model reply) is a sequence of chunks.  The chunks           *)
(*   {  }  [  ]  :  ,  "  and the blank stand for that one character, a    *)
(* digit chunk for that digit, and any other chunk for a run of characters *)
(* that starts with a letter and holds no brace, quote, backslash or       *)
(* control character.                                                      *)
(***************************************************************************)
EXTENDS Integers, Sequences, FiniteSets, TLC

VARIABLES
    pc,               \* position of the process in main()
    outcome,          \* "running", "ok" (exit 0), "sys.exit(1)" or the uncaught exception
    run,              \* number of the current run of the script
    executed,         \* the commands handed to subprocess.run in this run, in order,
                      \* each with its return code and whether it wrote its report
    task_data_file,   \* automation_tool/task_data.json
    metadata_base,    \* tasks/metadata_base.json
    metadata_files,   \* tasks/<jira_id>/metadata.json, per ticket
    task_folders,     \* the tasks/<jira_id> directories that exist
    report_files,     \* the code-evaluation/analysis/impl_<i>_report.md that exist
    task_folder,      \* main's local: the ticket whose folder the bootstrapper returned
    task_data,        \* main's local: the loaded task data
    reports,          \* main's local: the loaded reports (their indices)
    content,          \* response.content, the model's reply
    analysis_results, \* main's local: what analyze_implementations returned
    parse_failed,     \* history: the except branch of analyze_implementations was taken
    steps_run,        \* history: the steps of main() entered in this run
    at_start          \* history: the metadata files as they were when this run started

vars == <<pc, outcome, run, executed, task_data_file, metadata_base, metadata_files,
          task_folders, report_files, task_folder, task_data, reports, content,
          analysis_results, parse_failed, steps_run, at_start>>

-----------------------------------------------------------------------------
(* Python values *)

JStr(s) == [t |-> "str", v |-> s]
JInt(n) == [t |-> "int", v |-> n]
JBool(b) == [t |-> "bool", v |-> b]
JNull == [t |-> "NoneType", v |-> "None"]
JList(q) == [t |-> "list", v |-> q]
JDict(f) == [t |-> "dict", v |-> f]
NoFile == [t |-> "nofile", v |-> "nofile"]
EmptyDict == JDict([k \in {} |-> JNull])

IsDict(x) == x.t = "dict"
IsList(x) == x.t = "list"
IsStr(x) == x.t = "str"
IsInt(x) == x.t = "int"

\* key in d, for a dict d
Has(d, k) == IsDict(d) /\ k \in DOMAIN d.v

\* d[k] = x  (dict item assignment: adds the key when absent)
SetItem(d, k, x) ==
    JDict([j \in DOMAIN d.v \cup {k} |-> IF j = k THEN x ELSE d.v[j]])

\* d.get(k, default)
DictGet(d, k, default) == IF Has(d, k) THEN d.v[k] ELSE default

\* a dict literal from a sequence of <<key, value>> pairs (a later pair wins)
RECURSIVE FromPairs(_)
FromPairs(pairs) ==
    IF pairs = <<>> THEN EmptyDict
    ELSE SetItem(FromPairs(SubSeq(pairs, 1, Len(pairs) - 1)),
                 pairs[Len(pairs)][1], pairs[Len(pairs)][2])

-----------------------------------------------------------------------------
(* json.loads on a text *)

Digits == <<"0", "1", "2", "3", "4", "5", "6", "7", "8", "9">>
IsDigit(c) == \E d \in 1..Len(Digits) : Digits[d] = c
DigitVal(c) == (CHOOSE d \in 1..Len(Digits) : Digits[d] = c) - 1
IsWS(c) == c = " "

\* str.find / str.rfind of a one-character needle; -1 when absent, else 0-based
find(s, c) ==
    IF \E i \in 1..Len(s) : s[i] = c
    THEN (CHOOSE i \in 1..Len(s) : s[i] = c /\ \A j \in 1..(i - 1) : s[j] # c) - 1
    ELSE -1

rfind(s, c) ==
    IF \E i \in 1..Len(s) : s[i] = c
    THEN (CHOOSE i \in 1..Len(s) : s[i] = c /\ \A j \in (i + 1)..Len(s) : s[j] # c) - 1
    ELSE -1

\* s[a:b] for 0 <= a, 0-based and end-exclusive
Slice(s, a, b) == SubSeq(s, a + 1, b)

\* the decoder's results: a value and the (1-based) position after it, or a failure
Decoded(x, n) == [ok |-> TRUE, val |-> x, next |-> n]
DecodeError == [ok |-> FALSE, val |-> JNull, next |-> 0]

\* first position >= i that holds no whitespace
RECURSIVE SkipWS(_, _)
SkipWS(s, i) == IF i <= Len(s) /\ IsWS(s[i]) THEN SkipWS(s, i + 1) ELSE i

\* the string whose opening quote is at i - 1
RECURSIVE scanstring(_, _, _)
scanstring(s, i, acc) ==
    IF i > Len(s) THEN DecodeError
    ELSE IF s[i] = "\"" THEN Decoded(JStr(acc), i + 1)
    ELSE scanstring(s, i + 1, acc \o s[i])

\* the integer that starts at i: 0, or a run of digits without a leading zero
RECURSIVE scan_digits(_, _, _)
scan_digits(s, i, acc) ==
    IF i <= Len(s) /\ IsDigit(s[i])
    THEN scan_digits(s, i + 1, 10 * acc + DigitVal(s[i]))
    ELSE Decoded(JInt(acc), i)

scan_number(s, i) ==
    IF s[i] = "0" THEN Decoded(JInt(0), i + 1) ELSE scan_digits(s, i, 0)

RECURSIVE scan_once(_, _), JSONObject(_, _, _), JSONArray(_, _, _)

\* the value that starts at i
scan_once(s, i) ==
    IF i > Len(s) THEN DecodeError
    ELSE IF s[i] = "\"" THEN scanstring(s, i + 1, "")
    ELSE IF s[i] = "{" THEN
        LET j == SkipWS(s, i + 1) IN
        IF j <= Len(s) /\ s[j] = "}" THEN Decoded(EmptyDict, j + 1)
        ELSE JSONObject(s, j, EmptyDict)
    ELSE IF s[i] = "[" THEN
        LET j == SkipWS(s, i + 1) IN
        IF j <= Len(s) /\ s[j] = "]" THEN Decoded(JList(<<>>), j + 1)
        ELSE JSONArray(s, j, <<>>)
    ELSE IF s[i] = "null" THEN Decoded(JNull, i + 1)
    ELSE IF s[i] = "true" THEN Decoded(JBool(TRUE), i + 1)
    ELSE IF s[i] = "false" THEN Decoded(JBool(FALSE), i + 1)
    ELSE IF IsDigit(s[i]) THEN scan_number(s, i)
    ELSE DecodeError

\* the members of an object from the key expected at i; acc holds the pairs so far
JSONObject(s, i, acc) ==
    IF i > Len(s) \/ s[i] # "\"" THEN DecodeError
    ELSE LET key == scanstring(s, i + 1, "") IN
         IF ~key.ok THEN DecodeError
         ELSE LET c == SkipWS(s, key.next) IN
              IF c > Len(s) \/ s[c] # ":" THEN DecodeError
              ELSE LET value == scan_once(s, SkipWS(s, c + 1)) IN
                   IF ~value.ok THEN DecodeError
                   ELSE LET e == SkipWS(s, value.next)
                            d == SetItem(acc, key.val.v, value.val)
                        IN  IF e > Len(s) THEN DecodeError
                            ELSE IF s[e] = "}" THEN Decoded(d, e + 1)
                            ELSE IF s[e] = "," THEN JSONObject(s, SkipWS(s, e + 1), d)
                            ELSE DecodeError

\* the elements of an array from the value expected at i
JSONArray(s, i, acc) ==
    LET value == scan_once(s, i) IN
    IF ~value.ok THEN DecodeError
    ELSE LET e == SkipWS(s, value.next)
             q == Append(acc, value.val)
         IN  IF e > Len(s) THEN DecodeError
             ELSE IF s[e] = "]" THEN Decoded(JList(q), e + 1)
             ELSE IF s[e] = "," THEN JSONArray(s, SkipWS(s, e + 1), q)
             ELSE DecodeError

\* json.loads(s): one value, whitespace around it, nothing else; else JSONDecodeError
json_loads(s) ==
    LET r == scan_once(s, SkipWS(s, 1)) IN
    IF r.ok /\ SkipWS(s, r.next) = Len(s) + 1 THEN r ELSE DecodeError

-----------------------------------------------------------------------------
(* Exceptions: an operation either returns a value or raises *)

Return(x) == [exc |-> "", val |-> x]
Raise(e) == [exc |-> e, val |-> JNull]

\* bool(x): the values Python treats as false
Falsy(x) ==
    \/ x.t = "NoneType"
    \/ (x.t = "bool" /\ ~x.v)
    \/ (x.t = "int" /\ x.v = 0)
    \/ (x.t = "str" /\ x.v = "")
    \/ (x.t = "list" /\ x.v = <<>>)
    \/ (x.t = "dict" /\ DOMAIN x.v = {})

\* k in x, for a str k: "yes", "no", or "TypeError" when x is no container.
\* (For a str x Python tests for a substring; no text of the model holds a key
\* name as a proper substring, so equality decides it.)
Contains(x, k) ==
    IF IsDict(x) THEN (IF k \in DOMAIN x.v THEN "yes" ELSE "no")
    ELSE IF IsList(x) THEN (IF \E i \in 1..Len(x.v) : x.v[i] = JStr(k) THEN "yes" ELSE "no")
    ELSE IF IsStr(x) THEN (IF x.v = k THEN "yes" ELSE "no")
    ELSE "TypeError"

-----------------------------------------------------------------------------
(* update_metadata *)

impl_to_diff ==
    [n \in {"impl_1", "impl_2", "impl_3", "impl_4"} |->
        CASE n = "impl_1" -> "diff_1"
          [] n = "impl_2" -> "diff_2"
          [] n = "impl_3" -> "diff_3"
          [] n = "impl_4" -> "diff_4"]

ScoreKeys == <<"name", "task_success", "instruction_following", "comment">>
EvaluationKeys == <<"best_diff", "preference_rationale", "improved_diff">>

\* impl_to_diff.get(impl_name): the diff key as a str value, or None
diff_key_of(impl_name) ==
    IF IsStr(impl_name) /\ impl_name.v \in DOMAIN impl_to_diff
    THEN JStr(impl_to_diff[impl_name.v])
    ELSE JNull

\* (faulty variant: the slot is replaced by the scores instead of being updated)
set_scores_dropping(impl, implementation) ==
    FromPairs(<<
        <<"task_success", implementation.v["task_success"]>>,
        <<"instruction_following", implementation.v["instruction_following"]>>,
        <<"comment", implementation.v["comment"]>> >>)

\* the three item assignments on the matching slot (lines 250-252)
set_scores(impl, implementation) ==
    SetItem(SetItem(SetItem(impl,
        "task_success", implementation.v["task_success"]),
        "instruction_following", implementation.v["instruction_following"]),
        "comment", implementation.v["comment"])

RECURSIVE first_slot_with(_, _, _)
\* (faulty variant: the slot is taken by the number of the key, not by the key it holds)
first_slot_by_position(slots, diff_key, j) ==
    LET n == CHOOSE m \in 1..4 : impl_to_diff[<<"impl_1", "impl_2", "impl_3", "impl_4">>[m]] = diff_key
    IN  IF n <= Len(slots) THEN n ELSE 0

\* the inner for loop: index of the first slot from j on that carries diff_key,
\* 0 when the loop ends without a match, -1 when the membership test raises
first_slot_with(slots, diff_key, j) ==
    IF j > Len(slots) THEN 0
    ELSE LET c == Contains(slots[j], diff_key) IN
         IF c = "TypeError" THEN -1
         ELSE IF c = "yes" THEN j
         ELSE first_slot_with(slots, diff_key, j + 1)

\* (faulty variant: the loop ends at the first entry without a diff key)
skip_entry_abort(i, entries) == Len(entries) + 1

\* `continue`: the entry the outer loop goes on with after one without a diff key
skip_entry(i, entries) == i + 1

\* the outer for loop from entry i on (lines 234-253)
RECURSIVE update_implementations(_, _, _)
update_implementations(metadata, entries, i) ==
    IF i > Len(entries) THEN Return(metadata)
    ELSE
    LET implementation == entries[i] IN
    IF ~IsDict(implementation) THEN Raise("TypeError")
    ELSE IF \E k \in 1..Len(ScoreKeys) : ~Has(implementation, ScoreKeys[k])
        THEN Raise("KeyError")
    ELSE
    LET impl_name == implementation.v["name"]
        diff_key == diff_key_of(impl_name)
    IN
    IF impl_name.t \in {"list", "dict"} THEN Raise("TypeError")   \* unhashable
    ELSE IF Falsy(diff_key)
        THEN update_implementations(metadata, entries, skip_entry(i, entries))
    ELSE IF ~IsDict(metadata) THEN Raise("TypeError")
    ELSE IF ~Has(metadata, "implementations") THEN Raise("KeyError")
    ELSE
    LET slots == metadata.v["implementations"] IN
    IF ~IsList(slots) THEN Raise("TypeError")
    ELSE
    LET j == first_slot_with(slots.v, diff_key.v, 1) IN
    IF j = -1 THEN Raise("TypeError")
    ELSE IF j = 0 THEN update_implementations(metadata, entries, i + 1)
    ELSE IF ~IsDict(slots.v[j]) THEN Raise("TypeError")
    ELSE update_implementations(
            SetItem(metadata, "implementations",
                    JList([slots.v EXCEPT ![j] = set_scores(slots.v[j], implementation)])),
            entries, i + 1)

\* the evaluation section from key number k on (lines 256-268)
RECURSIVE update_evaluation(_, _, _)
update_evaluation(metadata, evaluation, k) ==
    IF k > Len(EvaluationKeys) THEN Return(metadata)
    ELSE
    LET key == EvaluationKeys[k]
        c == Contains(evaluation, key)
    IN
    IF c = "TypeError" THEN Raise("TypeError")
    ELSE IF c = "no" THEN update_evaluation(metadata, evaluation, k + 1)
    ELSE IF ~IsDict(evaluation) THEN Raise("TypeError")
    ELSE IF ~IsDict(metadata) THEN Raise("TypeError")
    ELSE IF ~Has(metadata, "evaluation") THEN Raise("KeyError")
    ELSE IF ~IsDict(metadata.v["evaluation"]) THEN Raise("TypeError")
    ELSE update_evaluation(
            SetItem(metadata, "evaluation",
                    SetItem(metadata.v["evaluation"], key, evaluation.v[key])),
            evaluation, k + 1)

\* the sequence a for loop over x iterates, or a TypeError
Iterate(x) ==
    IF IsList(x) THEN Return(x)
    ELSE IF IsDict(x) THEN
        (IF DOMAIN x.v = {} THEN Return(JList(<<>>))
         ELSE Return(JList(<<JStr(CHOOSE k \in DOMAIN x.v : TRUE)>>)))
    ELSE IF IsStr(x) THEN
        (IF x.v = "" THEN Return(JList(<<>>)) ELSE Return(JList(<<JStr(x.v)>>)))
    ELSE Raise("TypeError")

\* update_metadata(task_folder, analysis_results) on the document `file` holds:
\* the document written back, or the exception raised before the write
update_metadata(file, results) ==
    IF file = NoFile THEN Raise("FileNotFoundError")
    ELSE IF ~IsDict(results) THEN Raise("TypeError")
    ELSE IF ~Has(results, "implementations") THEN Raise("KeyError")
    ELSE
    LET entries == Iterate(results.v["implementations"]) IN
    IF entries.exc # "" THEN entries
    ELSE
    LET a == update_implementations(file, entries.val.v, 1) IN
    IF a.exc # "" THEN a
    ELSE IF ~Has(results, "evaluation") THEN a
    ELSE update_evaluation(a.val, results.v["evaluation"], 1)

-----------------------------------------------------------------------------
(* create_task_folder_and_metadata *)

TaskDetailFields ==
    <<"repo_name", "before_sha", "after_sha", "pr_description",
      "reference_implementation_diff">>
DiffFields == <<"diff_1", "diff_2", "diff_3", "diff_4">>

\* (faulty variant: get without the "" default)
get_field_no_default(data, key) == DictGet(data, key, JNull)

\* task_data.get(key, "")
get_field(data, key) == DictGet(data, key, JStr(""))

\* (faulty variant: an existing metadata file is kept instead of overwritten)
seed_metadata_keep(base, existing) == IF existing # NoFile THEN existing ELSE base

\* shutil.copyfile(template, metadata.json) followed by json.load of the copy:
\* the document the bootstrapper starts from, whatever the file held before
seed_metadata(base, existing) == base

\* metadata["task_details"][f] = task_data.get(f, "") for field number k on
RECURSIVE copy_task_details(_, _, _)
copy_task_details(metadata, data, k) ==
    IF k > Len(TaskDetailFields) THEN Return(metadata)
    ELSE IF ~Has(metadata, "task_details") THEN Raise("KeyError")
    ELSE IF ~IsDict(metadata.v["task_details"]) THEN Raise("TypeError")
    ELSE copy_task_details(
            SetItem(metadata, "task_details",
                    SetItem(metadata.v["task_details"], TaskDetailFields[k],
                            get_field(data, TaskDetailFields[k]))),
            data, k + 1)

\* metadata["implementations"][k-1]["diff_k"] = task_data.get("diff_k", "") for k on
RECURSIVE copy_diffs(_, _, _)
copy_diffs(metadata, data, k) ==
    IF k > Len(DiffFields) THEN Return(metadata)
    ELSE IF ~Has(metadata, "implementations") THEN Raise("KeyError")
    ELSE
    LET slots == metadata.v["implementations"] IN
    IF IsDict(slots) THEN Raise("KeyError")
    ELSE IF ~IsList(slots) THEN Raise("TypeError")
    ELSE IF k > Len(slots.v) THEN Raise("IndexError")
    ELSE IF ~IsDict(slots.v[k]) THEN Raise("TypeError")
    ELSE copy_diffs(
            SetItem(metadata, "implementations",
                    JList([slots.v EXCEPT ![k] =
                              SetItem(slots.v[k], DiffFields[k],
                                      get_field(data, DiffFields[k]))])),
            data, k + 1)

\* lines 309-322 on the loaded template copy
fill_metadata(metadata, data, task_id) ==
    IF ~IsDict(metadata) THEN Raise("TypeError")
    ELSE
    LET m1 == SetItem(metadata, "task_id", JStr(task_id))
        m2 == SetItem(m1, "jira", get_field(data, "jira_id"))
        m3 == copy_task_details(m2, data, 1)
    IN  IF m3.exc # "" THEN m3 ELSE copy_diffs(m3.val, data, 1)

\* create_task_folder_and_metadata: what it raises ("" when it returns), the folder
\* it made ("" when none) and the document metadata.json of that folder holds after
create_task_folder_and_metadata(task_file, base, files, task_id) ==
    IF task_file = NoFile
        THEN [exc |-> "sys.exit(1)", folder |-> "", file |-> NoFile]
    ELSE IF ~IsDict(task_file)
        THEN [exc |-> "AttributeError", folder |-> "", file |-> NoFile]
    ELSE
    LET jira_id == DictGet(task_file, "jira_id", JNull) IN
    IF Falsy(jira_id)
        THEN [exc |-> "sys.exit(1)", folder |-> "", file |-> NoFile]
    ELSE IF ~IsStr(jira_id)
        THEN [exc |-> "TypeError", folder |-> "", file |-> NoFile]
    ELSE IF base = NoFile
        THEN [exc |-> "FileNotFoundError", folder |-> jira_id.v, file |-> files[jira_id.v]]
    ELSE
    LET copy == seed_metadata(base, files[jira_id.v])
        filled == fill_metadata(copy, task_file, task_id)
    IN  IF filled.exc # ""
        THEN [exc |-> filled.exc, folder |-> jira_id.v, file |-> copy]
        ELSE [exc |-> "", folder |-> jira_id.v, file |-> filled.val]

-----------------------------------------------------------------------------
(* analyze_implementations: the handling of the reply (lines 171-216) *)

ErrorText == "Error parsing LLM response"

fallback_entry(name) ==
    FromPairs(<< <<"name", JStr(name)>>, <<"task_success", JInt(0)>>,
                 <<"instruction_following", JInt(0)>>, <<"comment", JStr(ErrorText)>> >>)

\* (faulty variant: the entry of impl_4 is missing)
fallback_three_entries ==
    FromPairs(<<
        <<"implementations",
          JList(<<fallback_entry("impl_1"), fallback_entry("impl_2"),
                  fallback_entry("impl_3")>>)>>,
        <<"evaluation",
          FromPairs(<< <<"best_diff", JInt(0)>>,
                       <<"preference_rationale", JStr(ErrorText)>>,
                       <<"improved_diff", JStr("")>> >>)>> >>)

\* the dict of lines 184-216
fallback ==
    FromPairs(<<
        <<"implementations",
          JList(<<fallback_entry("impl_1"), fallback_entry("impl_2"),
                  fallback_entry("impl_3"), fallback_entry("impl_4")>>)>>,
        <<"evaluation",
          FromPairs(<< <<"best_diff", JInt(0)>>,
                       <<"preference_rationale", JStr(ErrorText)>>,
                       <<"improved_diff", JStr("")>> >>)>> >>)

\* (faulty variant: the slice ends before the last brace)
json_str_short(text) ==
    LET first_brace == find(text, "{")
        last_brace == rfind(text, "}")
    IN  IF first_brace # -1 /\ last_brace # -1
        THEN Slice(text, first_brace, last_brace)
        ELSE text

\* the text handed to json.loads (lines 173-180)
json_str(text) ==
    LET first_brace == find(text, "{")
        last_brace == rfind(text, "}")
    IN  IF first_brace # -1 /\ last_brace # -1
        THEN Slice(text, first_brace, last_brace + 1)
        ELSE text

\* (faulty variant: the error is not caught)
on_decode_error_reraise(text) == Raise("JSONDecodeError")

\* the except branch: what a JSONDecodeError turns into
on_decode_error(text) == Return(fallback)

\* what analyze_implementations returns for the reply text
analyze_implementations(text) ==
    LET r == json_loads(json_str(text)) IN
    IF r.ok THEN Return(r.val) ELSE on_decode_error(text)

-----------------------------------------------------------------------------
(* The files and replies the runs are checked on *)

MaxRuns == 2
MaxEntries == 2
MaxReplyLen == 4
NumCommands == 6

Tickets == {"T-1", "T-2"}
TaskIds == {"uuid-a", "uuid-b"}
ReturnCodes == {0, 1, 2}

Permutations4 == {p \in [1..4 -> 1..4] : \A i, j \in 1..4 : p[i] = p[j] => i = j}

\* a task_data.json for ticket `jira` ("" for none) holding the fields in `present`
TaskFile(jira, present) ==
    LET fields == {TaskDetailFields[k] : k \in 1..Len(TaskDetailFields)}
                      \cup {DiffFields[k] : k \in 1..Len(DiffFields)}
        body == JDict([f \in fields \cap present |-> JStr("task " \o f)])
    IN  IF jira = "" THEN body ELSE SetItem(body, "jira_id", JStr(jira))

AllTaskFields ==
    {TaskDetailFields[k] : k \in 1..Len(TaskDetailFields)}
        \cup {DiffFields[k] : k \in 1..Len(DiffFields)}

\* a slot of the template: its pre-keyed diff field and empty scores
TemplateSlot(diff_key, prior) ==
    FromPairs(<< <<diff_key, JStr(prior)>>, <<"task_success", JInt(0)>>,
                 <<"instruction_following", JInt(0)>>, <<"comment", JStr("")>>,
                 <<"reviewer", JStr("unassigned")>> >>)

EmptyEvaluation ==
    FromPairs(<< <<"best_diff", JInt(0)>>, <<"preference_rationale", JStr("")>>,
                 <<"improved_diff", JStr("")>> >>)

\* a document of the metadata schema around the given slots
MetadataDoc(slots, prior) ==
    FromPairs(<<
        <<"task_id", JStr(prior)>>,
        <<"jira", JStr(prior)>>,
        <<"schema_version", JStr("v1")>>,
        <<"task_details",
          SetItem(JDict([f \in {TaskDetailFields[k] : k \in 1..Len(TaskDetailFields)}
                            |-> JStr(prior)]),
                  "labels", JList(<<JStr("triage")>>))>>,
        <<"implementations", JList(slots)>>,
        <<"evaluation", EmptyEvaluation>> >>)

\* tasks/metadata_base.json with its four slots pre-keyed in the given order
Template(order, prior) ==
    MetadataDoc([j \in 1..4 |-> TemplateSlot(DiffFields[order[j]], prior)], prior)

\* one score entry of an evaluation result; p makes its values distinct
Entry(name, p) ==
    FromPairs(<< <<"name", JStr(name)>>, <<"task_success", JInt(p)>>,
                 <<"instruction_following", JInt(6 - p)>>,
                 <<"comment", JStr("comment " \o Digits[p + 1])>> >>)

FullEvaluation ==
    FromPairs(<< <<"best_diff", JInt(2)>>,
                 <<"preference_rationale", JStr("impl_2 is the most complete")>>,
                 <<"improved_diff", JStr("improved text")>> >>)

\* an evaluation result with the entries named `names`, in that order
Result(names, evaluation) ==
    LET r == FromPairs(<< <<"implementations",
                            JList([p \in 1..Len(names) |-> Entry(names[p], p)])>> >>)
    IN  IF evaluation = NoFile THEN r ELSE SetItem(r, "evaluation", evaluation)

ImplNames == <<"impl_1", "impl_2", "impl_3", "impl_4">>
GoodResult == Result(ImplNames, FullEvaluation)

\* json.dumps-style text of a value
RECURSIVE IntText(_), Dumps(_), DumpItems(_, _), DumpMembers(_, _)
IntText(n) == IF n < 10 THEN <<Digits[n + 1]>> ELSE IntText(n \div 10) \o <<Digits[(n % 10) + 1]>>

Dumps(x) ==
    CASE x.t = "str" -> <<"\"">> \o (IF x.v = "" THEN <<>> ELSE <<x.v>>) \o <<"\"">>
      [] x.t = "int" -> IntText(x.v)
      [] x.t = "bool" -> IF x.v THEN <<"true">> ELSE <<"false">>
      [] x.t = "NoneType" -> <<"null">>
      [] x.t = "list" -> <<"[">> \o DumpItems(x.v, 1) \o <<"]">>
      [] x.t = "dict" -> <<"{">> \o DumpMembers(x.v, DOMAIN x.v) \o <<"}">>

DumpItems(q, i) ==
    IF i > Len(q) THEN <<>>
    ELSE Dumps(q[i]) \o (IF i < Len(q) THEN <<",", " ">> ELSE <<>>) \o DumpItems(q, i + 1)

DumpMembers(f, keys) ==
    IF keys = {} THEN <<>>
    ELSE LET k == CHOOSE j \in keys : TRUE IN
         <<"\"", k, "\"", ":", " ">> \o Dumps(f[k])
            \o (IF keys = {k} THEN <<>> ELSE <<",", " ">>)
            \o DumpMembers(f, keys \ {k})

Preamble == <<"Here is the result: ">>
Closing == <<" Thanks.">>

\* the replies the full runs are checked on
RunReplies ==
    { <<"I cannot comply.">>,
      Preamble \o Dumps(GoodResult) \o Closing,
      Dumps(GoodResult),
      Preamble \o Dumps(GoodResult) \o <<" ", "}">>,
      Dumps(Result(<<"impl_3", "impl_5">>, FromPairs(<< <<"best_diff", JInt(3)>> >>))),
      <<"{", "}">> }

\* every text of at most MaxReplyLen chunks over these chunks, and the replies above
ReplyChunks == {"{", "}", "[", "]", "\"", ":", "k", "1"}
AllReplies == UNION {[1..n -> ReplyChunks] : n \in 0..MaxReplyLen} \cup RunReplies

RunTemplates ==
    {Template(order, "template text") :
        order \in {<<1, 2, 3, 4>>, <<2, 1, 3, 4>>}} \cup {NoFile}

RunTaskFiles ==
    { NoFile,
      TaskFile("T-1", AllTaskFields),
      TaskFile("T-2", AllTaskFields),
      TaskFile("", AllTaskFields),
      TaskFile("T-1", AllTaskFields \ {"diff_3"}) }

-----------------------------------------------------------------------------
(* main(): one action per step *)

Running(label) == pc = label /\ outcome = "running"

Locals == <<task_folder, task_data, reports, content, analysis_results>>
Files == <<task_data_file, metadata_base, metadata_files, task_folders, report_files>>
History == <<parse_failed, at_start>>

\* lines 340-341: the bare name api_key raises NameError when no global defines it
InitLLM ==
    /\ Running("init_llm")
    /\ \E api_key_defined \in BOOLEAN :
          IF api_key_defined
          THEN pc' = "commands" /\ outcome' = outcome
          ELSE pc' = pc /\ outcome' = "NameError"
    /\ steps_run' = steps_run \cup {"init_llm"}
    /\ UNCHANGED <<run, executed, Files, Locals, History>>

\* (faulty variant: the return code is ignored)
after_command_continue(k, returncode) ==
    [pc |-> IF k = NumCommands THEN "bootstrap" ELSE "commands", outcome |-> "running"]

\* run_command's reaction to the return code: the label main goes on at, or the exit
after_command(k, returncode) ==
    IF returncode # 0
    THEN [pc |-> "commands", outcome |-> "sys.exit(1)"]
    ELSE [pc |-> IF k = NumCommands THEN "bootstrap" ELSE "commands", outcome |-> "running"]

\* lines 353-355 with run_command (11-18): the next command of the list.  The
\* command is opaque: any return code, and its --output report written or not.
RunCommand ==
    /\ Running("commands")
    /\ Len(executed) < NumCommands
    /\ LET k == Len(executed) + 1 IN
       \E returncode \in ReturnCodes,
          wrote \in (IF k \in 2..5 THEN BOOLEAN ELSE {FALSE}) :
          /\ executed' = Append(executed, [command |-> k, returncode |-> returncode,
                                           wrote |-> wrote])
          /\ report_files' = IF wrote THEN report_files \cup {k - 1} ELSE report_files
          /\ pc' = after_command(k, returncode).pc
          /\ outcome' = after_command(k, returncode).outcome
    /\ steps_run' = steps_run \cup {"commands"}
    /\ UNCHANGED <<run, task_data_file, metadata_base, metadata_files, task_folders,
                   Locals, History>>

\* line 358: create_task_folder_and_metadata(task_data_path)
Bootstrap ==
    /\ Running("bootstrap")
    /\ \E task_id \in TaskIds :
          LET r == create_task_folder_and_metadata(task_data_file, metadata_base,
                                                   metadata_files, task_id)
          IN  /\ task_folders' =
                    IF r.folder = "" THEN task_folders ELSE task_folders \cup {r.folder}
              /\ metadata_files' =
                    IF r.folder = "" THEN metadata_files
                    ELSE [metadata_files EXCEPT ![r.folder] = r.file]
              /\ IF r.exc = ""
                 THEN pc' = "load_task_data" /\ outcome' = outcome
                        /\ task_folder' = r.folder
                 ELSE pc' = pc /\ outcome' = r.exc /\ task_folder' = task_folder
    /\ steps_run' = steps_run \cup {"bootstrap"}
    /\ UNCHANGED <<run, executed, task_data_file, metadata_base, report_files,
                   task_data, reports, content, analysis_results, parse_failed, at_start>>

\* lines 359-366: load_task_data and the subscripts main needs
LoadTaskData ==
    /\ Running("load_task_data")
    /\ LET needed == {"pr_description"} \cup {DiffFields[k] : k \in 1..Len(DiffFields)} IN
       IF task_data_file = NoFile
       THEN pc' = pc /\ outcome' = "FileNotFoundError" /\ task_data' = task_data
       ELSE IF \E f \in needed : ~Has(task_data_file, f)
       THEN pc' = pc /\ outcome' = "KeyError" /\ task_data' = task_data_file
       ELSE pc' = "load_reports" /\ outcome' = outcome /\ task_data' = task_data_file
    /\ steps_run' = steps_run \cup {"load_task_data"}
    /\ UNCHANGED <<run, executed, Files, task_folder, reports, content,
                   analysis_results, History>>

\* line 367 with load_implementation_reports (27-34)
LoadReports ==
    /\ Running("load_reports")
    /\ IF \E i \in 1..4 : i \notin report_files
       THEN pc' = pc /\ outcome' = "FileNotFoundError" /\ reports' = reports
       ELSE pc' = "invoke_llm" /\ outcome' = outcome /\ reports' = 1..4
    /\ steps_run' = steps_run \cup {"load_reports"}
    /\ UNCHANGED <<run, executed, Files, task_folder, task_data, content,
                   analysis_results, History>>

\* line 169: llm.invoke(messages) answers with any reply, or raises
InvokeLLM ==
    /\ Running("invoke_llm")
    /\ \E answered \in BOOLEAN :
          IF answered
          THEN /\ \E text \in RunReplies : content' = text
               /\ pc' = "parse_response" /\ outcome' = outcome
          ELSE content' = content /\ pc' = pc /\ outcome' = "APIError"
    /\ steps_run' = steps_run \cup {"invoke_llm"}
    /\ UNCHANGED <<run, executed, Files, task_folder, task_data, reports,
                   analysis_results, History>>

\* lines 171-216: the reply becomes analysis_results
ParseResponse ==
    /\ Running("parse_response")
    /\ LET r == analyze_implementations(content) IN
       IF r.exc = ""
       THEN /\ analysis_results' = r.val
            /\ pc' = "update_metadata" /\ outcome' = outcome
       ELSE analysis_results' = analysis_results /\ pc' = pc /\ outcome' = r.exc
    /\ parse_failed' = ~json_loads(json_str(content)).ok
    /\ steps_run' = steps_run \cup {"parse_response"}
    /\ UNCHANGED <<run, executed, Files, task_folder, task_data, reports, content,
                   at_start>>

\* line 376: update_metadata(task_folder, analysis_results), then the end of main
UpdateMetadata ==
    /\ Running("update_metadata")
    /\ LET r == update_metadata(metadata_files[task_folder], analysis_results) IN
       IF r.exc = ""
       THEN /\ metadata_files' = [metadata_files EXCEPT ![task_folder] = r.val]
            /\ pc' = "end" /\ outcome' = "ok"
       ELSE /\ metadata_files' = metadata_files
            /\ pc' = pc /\ outcome' = r.exc
    /\ steps_run' = steps_run \cup {"update_metadata"}
    /\ UNCHANGED <<run, executed, task_data_file, metadata_base, task_folders,
                   report_files, Locals, parse_failed, at_start>>

\* the script is started again after a completed run; the files stay, the task
\* definition may have been edited
Restart ==
    /\ outcome = "ok"
    /\ run < MaxRuns
    /\ run' = run + 1
    /\ pc' = "init_llm" /\ outcome' = "running"
    /\ executed' = <<>>
    /\ task_data_file' \in RunTaskFiles
    /\ task_folder' = "" /\ task_data' = JNull /\ reports' = {}
    /\ content' = <<>> /\ analysis_results' = JNull
    /\ parse_failed' = FALSE /\ steps_run' = {}
    /\ at_start' = metadata_files
    /\ UNCHANGED <<metadata_base, metadata_files, task_folders, report_files>>

Init ==
    /\ pc = "init_llm" /\ outcome = "running" /\ run = 1
    /\ executed = <<>>
    /\ task_data_file \in RunTaskFiles
    /\ metadata_base \in RunTemplates
    /\ metadata_files = [t \in Tickets |-> NoFile]
    /\ task_folders = {} /\ report_files = {}
    /\ task_folder = "" /\ task_data = JNull /\ reports = {}
    /\ content = <<>> /\ analysis_results = JNull
    /\ parse_failed = FALSE /\ steps_run = {}
    /\ at_start = metadata_files

Next ==
    \/ InitLLM
    \/ RunCommand
    \/ Bootstrap
    \/ LoadTaskData
    \/ LoadReports
    \/ InvokeLLM
    \/ ParseResponse
    \/ UpdateMetadata
    \/ Restart

Spec == Init /\ [][Next]_vars

-----------------------------------------------------------------------------
(* The steps on their own, from every input of a bounded set *)

StepsBefore(label) ==
    CASE label = "bootstrap" -> {"init_llm", "commands"}
      [] label = "parse_response" ->
            {"init_llm", "commands", "bootstrap", "load_task_data", "load_reports",
             "invoke_llm"}
      [] label = "update_metadata" ->
            {"init_llm", "commands", "bootstrap", "load_task_data", "load_reports",
             "invoke_llm", "parse_response"}

\* a first run that has reached `label` after six successful commands
ReachedStep(label) ==
    /\ pc = label /\ outcome = "running" /\ run = 1
    /\ executed = [k \in 1..NumCommands |->
                      [command |-> k, returncode |-> 0, wrote |-> k \in 2..5]]
    /\ report_files = 1..4
    /\ steps_run = StepsBefore(label)

NaturalOrder == <<1, 2, 3, 4>>
FullTaskFile == TaskFile("T-1", AllTaskFields)
BootstrappedDoc ==
    create_task_folder_and_metadata(
        FullTaskFile, Template(NaturalOrder, "template text"),
        [t \in Tickets |-> NoFile], "uuid-a").file

\* update_metadata on every metadata record and evaluation result below
EntryNames == {"impl_1", "impl_2", "impl_3", "impl_4", "impl_5"}
NameSeqs ==
    UNION {[1..n -> EntryNames] : n \in 0..MaxEntries}
        \cup {[j \in 1..4 |-> ImplNames[p[j]]] : p \in Permutations4}
MergeEvaluations ==
    {NoFile, EmptyDict, FullEvaluation, FromPairs(<< <<"best_diff", JInt(3)>> >>)}
MergeResults ==
    {Result(names, evaluation) : names \in NameSeqs, evaluation \in MergeEvaluations}
        \cup {fallback}

\* slot layouts: slot j carries the diff key number layout[j], or none when 0;
\* no key is carried twice
Layouts ==
    {l \in [1..4 -> 0..4] : \A i, j \in 1..4 : (l[i] = l[j] /\ l[i] # 0) => i = j}
LayoutSlot(k) ==
    IF k = 0
    THEN FromPairs(<< <<"task_success", JInt(0)>>, <<"instruction_following", JInt(0)>>,
                      <<"comment", JStr("")>>, <<"reviewer", JStr("unassigned")>> >>)
    ELSE TemplateSlot(DiffFields[k], "task " \o DiffFields[k])
MergeDocs ==
    {MetadataDoc([j \in 1..4 |-> LayoutSlot(l[j])], "task text") : l \in Layouts}

InitMerge ==
    /\ ReachedStep("update_metadata")
    /\ task_data_file = FullTaskFile /\ task_data = FullTaskFile
    /\ metadata_base = Template(NaturalOrder, "template text")
    /\ \E doc \in MergeDocs :
          metadata_files = [t \in Tickets |-> IF t = "T-1" THEN doc ELSE NoFile]
    /\ task_folders = {"T-1"} /\ task_folder = "T-1"
    /\ reports = 1..4
    /\ analysis_results \in MergeResults
    /\ content = Dumps(analysis_results)
    /\ parse_failed = FALSE
    /\ at_start = metadata_files

SpecMerge == InitMerge /\ [][UpdateMetadata]_vars

\* the reply handling on every reply of AllReplies
InitParse ==
    /\ ReachedStep("parse_response")
    /\ task_data_file = FullTaskFile /\ task_data = FullTaskFile
    /\ metadata_base = Template(NaturalOrder, "template text")
    /\ metadata_files = [t \in Tickets |-> IF t = "T-1" THEN BootstrappedDoc ELSE NoFile]
    /\ task_folders = {"T-1"} /\ task_folder = "T-1"
    /\ reports = 1..4
    /\ content \in AllReplies
    /\ analysis_results = JNull
    /\ parse_failed = FALSE
    /\ at_start = [t \in Tickets |-> NoFile]

SpecParse == InitParse /\ [][ParseResponse]_vars

\* the bootstrapper on every task definition and template below, over no file or
\* over the file a previous run left
BootTaskFiles ==
    {TaskFile(jira, present) : jira \in {"T-1", ""}, present \in SUBSET AllTaskFields}
        \cup {NoFile}
BootTemplates ==
    {Template(order, prior) :
        order \in {NaturalOrder, <<2, 1, 3, 4>>, <<4, 3, 2, 1>>},
        prior \in {"", "template text"}} \cup {NoFile}
PreviousRunDoc == update_metadata(BootstrappedDoc, GoodResult).val

InitBoot ==
    /\ ReachedStep("bootstrap")
    /\ task_data_file \in BootTaskFiles
    /\ metadata_base \in BootTemplates
    /\ \E doc \in {NoFile, PreviousRunDoc} :
          /\ metadata_files = [t \in Tickets |-> IF t = "T-1" THEN doc ELSE NoFile]
          /\ task_folders = IF doc = NoFile THEN {} ELSE {"T-1"}
    /\ task_folder = "" /\ task_data = JNull /\ reports = {}
    /\ content = <<>> /\ analysis_results = JNull
    /\ parse_failed = FALSE
    /\ at_start = metadata_files

SpecBoot == InitBoot /\ [][Bootstrap]_vars

-----------------------------------------------------------------------------
(* Properties *)

ScoreFields == {"task_success", "instruction_following", "comment"}
SummaryFields == {"best_diff", "preference_rationale", "improved_diff"}

Acted(step) == step \in steps_run
CurrentFile == metadata_files[task_folder]
FileBefore == at_start[task_folder]
SlotsOf(doc) == doc.v["implementations"].v
Without(d, keys) == JDict([k \in DOMAIN d.v \ keys |-> d.v[k]])

\* a metadata record: a dict with a list of dict slots and a dict evaluation section
IsMetadataRecord(doc) ==
    /\ IsDict(doc)
    /\ Has(doc, "implementations") /\ IsList(doc.v["implementations"])
    /\ \A j \in 1..Len(SlotsOf(doc)) : IsDict(SlotsOf(doc)[j])
    /\ Has(doc, "evaluation") /\ IsDict(doc.v["evaluation"])

\* an evaluation result: a list of entries with the four fields and a str name, and
\* an evaluation section that is a dict when present
IsEvaluationResult(r) ==
    /\ IsDict(r)
    /\ Has(r, "implementations") /\ IsList(r.v["implementations"])
    /\ \A i \in 1..Len(r.v["implementations"].v) :
          LET e == r.v["implementations"].v[i] IN
          /\ IsDict(e)
          /\ \A k \in 1..Len(ScoreKeys) : Has(e, ScoreKeys[k])
          /\ IsStr(e.v["name"])
    /\ Has(r, "evaluation") => IsDict(r.v["evaluation"])

EntriesOf(r) == r.v["implementations"].v
SameScores(slot, entry) ==
    \A f \in ScoreFields : Has(slot, f) /\ slot.v[f] = entry.v[f]

\* the document with the fields the merge may write taken out
OutsideEvaluation(doc) ==
    IF ~IsDict(doc) THEN doc
    ELSE JDict([k \in DOMAIN doc.v |->
            IF k = "implementations" /\ IsList(doc.v[k])
            THEN JList([j \in 1..Len(doc.v[k].v) |->
                          IF IsDict(doc.v[k].v[j])
                          THEN Without(doc.v[k].v[j], ScoreFields)
                          ELSE doc.v[k].v[j]])
            ELSE IF k = "evaluation" /\ IsDict(doc.v[k])
            THEN Without(doc.v[k], SummaryFields)
            ELSE doc.v[k]])

\* C1: update_metadata changes nothing in any metadata file except task_success,
\* instruction_following and comment of the implementation slots and best_diff,
\* preference_rationale and improved_diff of the evaluation section.
C1_MergeFrame ==
    [][Running("update_metadata") =>
          \A t \in Tickets :
              OutsideEvaluation(metadata_files'[t]) = OutsideEvaluation(metadata_files[t])]_vars

C1_Witness ==
    /\ Acted("update_metadata") /\ outcome = "ok"
    /\ analysis_results = GoodResult
    /\ CurrentFile # FileBefore
    /\ Has(CurrentFile, "schema_version")
    /\ \E j \in 1..4 : Has(SlotsOf(CurrentFile)[j], "diff_1")
                          /\ Has(SlotsOf(CurrentFile)[j], "reviewer")

\* each slot carries exactly one of diff_1..diff_4 and each key is carried
OneKeyPerSlot(doc) ==
    /\ IsMetadataRecord(doc)
    /\ Len(SlotsOf(doc)) = 4
    /\ \A j \in 1..4 :
          Cardinality({k \in 1..4 : Has(SlotsOf(doc)[j], DiffFields[k])}) = 1
    /\ \A k \in 1..4 : \E j \in 1..4 : Has(SlotsOf(doc)[j], DiffFields[k])

\* the result names impl_1..impl_4, each once
NamesAllFour(r) ==
    /\ IsEvaluationResult(r)
    /\ Len(EntriesOf(r)) = 4
    /\ \A n \in 1..4 : \E i \in 1..4 : EntriesOf(r)[i].v["name"] = JStr(ImplNames[n])

\* C2: with one diff key per slot, in any order, and a result naming impl_1..impl_4,
\* the scores and comment of impl_n are in the slot that contains diff_n.
C2_ScoresLandByKey ==
    (Acted("update_metadata") /\ OneKeyPerSlot(FileBefore)
        /\ NamesAllFour(analysis_results))
    => /\ outcome = "ok"
       /\ \A n \in 1..4 : \A j \in 1..4 : \A i \in 1..4 :
             (Has(SlotsOf(FileBefore)[j], DiffFields[n])
                 /\ EntriesOf(analysis_results)[i].v["name"] = JStr(ImplNames[n]))
             => /\ Has(SlotsOf(CurrentFile)[j], DiffFields[n])
                /\ SameScores(SlotsOf(CurrentFile)[j], EntriesOf(analysis_results)[i])

C2_Witness ==
    /\ Acted("update_metadata") /\ outcome = "ok"
    /\ OneKeyPerSlot(FileBefore) /\ NamesAllFour(analysis_results)
    /\ Has(SlotsOf(FileBefore)[1], "diff_3")
    /\ Has(SlotsOf(FileBefore)[4], "diff_2")
    /\ EntriesOf(analysis_results)[1].v["name"] = JStr("impl_2")
    /\ SameScores(SlotsOf(CurrentFile)[4], EntriesOf(analysis_results)[1])

\* the slot an entry is written to: the first slot that carries the diff key of its
\* name; 0 when the name has no diff key or no slot carries it
TargetSlot(doc, entry) ==
    LET name == entry.v["name"].v
        ns == {n \in 1..4 : ImplNames[n] = name}
    IN  IF ns = {} THEN 0
        ELSE LET key == DiffFields[CHOOSE n \in ns : TRUE]
                 js == {j \in 1..Len(SlotsOf(doc)) : Has(SlotsOf(doc)[j], key)}
             IN  IF js = {} THEN 0
                 ELSE CHOOSE j \in js : \A h \in js : j <= h

\* the last entry written to slot j; 0 when there is none
LastEntryFor(doc, r, j) ==
    LET is == {i \in 1..Len(EntriesOf(r)) : TargetSlot(doc, EntriesOf(r)[i]) = j}
    IN  IF is = {} THEN 0 ELSE CHOOSE i \in is : \A h \in is : h <= i

\* the record with the entries that have a slot and the summary keys present applied
MergeOf(doc, r) ==
    LET slots == [j \in 1..Len(SlotsOf(doc)) |->
                    LET i == LastEntryFor(doc, r, j)
                        old == SlotsOf(doc)[j]
                    IN  IF i = 0 THEN old
                        ELSE JDict([f \in DOMAIN old.v \cup ScoreFields |->
                                IF f \in ScoreFields THEN EntriesOf(r)[i].v[f]
                                ELSE old.v[f]])]
        old_ev == doc.v["evaluation"]
        new_ev == IF Has(r, "evaluation") THEN r.v["evaluation"] ELSE EmptyDict
        given == DOMAIN new_ev.v \cap SummaryFields
        ev == JDict([f \in DOMAIN old_ev.v \cup given |->
                        IF f \in given THEN new_ev.v[f] ELSE old_ev.v[f]])
    IN  JDict([k \in DOMAIN doc.v |->
                  IF k = "implementations" THEN JList(slots)
                  ELSE IF k = "evaluation" THEN ev
                  ELSE doc.v[k]])

\* C9: an entry whose name has no diff key, or whose diff key no slot carries, is
\* skipped without an error and without a change to any slot; the other entries and
\* the evaluation summary of the same result are applied and written.
C9_SkipUnmatched ==
    [][(Running("update_metadata") /\ IsMetadataRecord(CurrentFile)
            /\ IsEvaluationResult(analysis_results))
        => /\ outcome' = "ok"
           /\ metadata_files'[task_folder] = MergeOf(CurrentFile, analysis_results)]_vars

C9_Witness ==
    /\ Acted("update_metadata") /\ outcome = "ok"
    /\ IsMetadataRecord(FileBefore) /\ IsEvaluationResult(analysis_results)
    /\ Len(EntriesOf(analysis_results)) = 2
    /\ EntriesOf(analysis_results)[1].v["name"] = JStr("impl_5")
    /\ EntriesOf(analysis_results)[2].v["name"] = JStr("impl_2")
    /\ \E j \in 1..4 : /\ Has(SlotsOf(FileBefore)[j], "diff_2")
                       /\ SameScores(SlotsOf(CurrentFile)[j], EntriesOf(analysis_results)[2])
                       /\ \A h \in (1..4) \ {j} : SlotsOf(CurrentFile)[h] = SlotsOf(FileBefore)[h]
    /\ Has(analysis_results, "evaluation")
    /\ CurrentFile.v["evaluation"].v["best_diff"] = JInt(3)

C9_WitnessNoSlot ==
    /\ Acted("update_metadata") /\ outcome = "ok"
    /\ IsMetadataRecord(FileBefore) /\ IsEvaluationResult(analysis_results)
    /\ Len(EntriesOf(analysis_results)) = 2
    /\ EntriesOf(analysis_results)[1].v["name"] = JStr("impl_1")
    /\ \A j \in 1..4 : ~Has(SlotsOf(FileBefore)[j], "diff_1")
    /\ EntriesOf(analysis_results)[2].v["name"] = JStr("impl_4")
    /\ \E j \in 1..4 : /\ Has(SlotsOf(FileBefore)[j], "diff_4")
                       /\ SameScores(SlotsOf(CurrentFile)[j], EntriesOf(analysis_results)[2])
                       /\ \A h \in (1..4) \ {j} : SlotsOf(CurrentFile)[h] = SlotsOf(FileBefore)[h]

-----------------------------------------------------------------------------
(* Properties of the reply handling *)

\* the positions of the reply at which a complete JSON object starts
ObjectStarts(text) ==
    {i \in 1..Len(text) : text[i] = "{" /\ scan_once(text, i).ok}

\* the first JSON object found in the reply, scanning from the left
FirstObject(text) ==
    LET i == CHOOSE a \in ObjectStarts(text) : \A b \in ObjectStarts(text) : a <= b
    IN  [start |-> i, next |-> scan_once(text, i).next, val |-> scan_once(text, i).val]

\* the text json.loads is given does not parse
Unparseable(text) ==
    LET opens == {i \in 1..Len(text) : text[i] = "{"}
        closes == {i \in 1..Len(text) : text[i] = "}"}
        span == IF opens # {} /\ closes # {}
                THEN SubSeq(text, CHOOSE a \in opens : \A b \in opens : a <= b,
                                  CHOOSE a \in closes : \A b \in closes : b <= a)
                ELSE text
    IN  ~json_loads(span).ok

IsFallbackEntry(e, name) ==
    /\ IsDict(e) /\ DOMAIN e.v = {"name", "task_success", "instruction_following", "comment"}
    /\ e.v["name"] = JStr(name)
    /\ e.v["task_success"] = JInt(0)
    /\ e.v["instruction_following"] = JInt(0)
    /\ e.v["comment"] = JStr("Error parsing LLM response")

IsFallbackStructure(r) ==
    /\ IsDict(r) /\ DOMAIN r.v = {"implementations", "evaluation"}
    /\ IsList(r.v["implementations"]) /\ Len(r.v["implementations"].v) = 4
    /\ \A n \in 1..4 : IsFallbackEntry(r.v["implementations"].v[n], ImplNames[n])
    /\ IsDict(r.v["evaluation"])
    /\ DOMAIN r.v["evaluation"].v = {"best_diff", "preference_rationale", "improved_diff"}
    /\ r.v["evaluation"].v["best_diff"] = JInt(0)
    /\ r.v["evaluation"].v["preference_rationale"] = JStr("Error parsing LLM response")
    /\ r.v["evaluation"].v["improved_diff"] = JStr("")

\* C3: when the reply does not parse as JSON even after trimming to the span from
\* its first '{' to its last '}', analyze_implementations returns the fixed
\* fallback structure.
C3_FallbackOnParseFailure ==
    (Acted("parse_response") /\ Unparseable(content))
    => /\ outcome = "running" /\ pc = "update_metadata"
       /\ IsFallbackStructure(analysis_results)

C3_Witness ==
    /\ Acted("parse_response")
    /\ content = <<"I cannot comply.">>
    /\ Unparseable(content)
    /\ pc = "update_metadata"
    /\ IsFallbackStructure(analysis_results)

\* C7 as stated: for every reply the result is the first top-level JSON object
\* found in the reply text.
C7_FirstObjectReturned ==
    (Acted("parse_response") /\ ObjectStarts(content) # {})
    => /\ outcome = "running"
       /\ analysis_results = FirstObject(content).val

\* C7, amended: when the first JSON object of the reply has no '{' before it and
\* no '}' after it, the result is that object, whatever prose surrounds it.
C7_EmbeddedObjectReturned ==
    (/\ Acted("parse_response")
     /\ ObjectStarts(content) # {}
     /\ \A i \in 1..(FirstObject(content).start - 1) : content[i] # "{"
     /\ \A i \in FirstObject(content).next..Len(content) : content[i] # "}")
    => /\ outcome = "running"
       /\ analysis_results = FirstObject(content).val

C7_Witness ==
    /\ Acted("parse_response")
    /\ content = Preamble \o Dumps(GoodResult) \o Closing
    /\ FirstObject(content).start = 2
    /\ FirstObject(content).next = Len(content)
    /\ analysis_results = GoodResult

\* four score entries with a str name, two int ratings in `ratings` and a str comment,
\* and an evaluation summary whose best_diff is an int in `bests`
HasResultShape(r, ratings, bests) ==
    /\ IsDict(r)
    /\ Has(r, "implementations") /\ IsList(r.v["implementations"])
    /\ Len(r.v["implementations"].v) = 4
    /\ \A i \in 1..4 :
          LET e == r.v["implementations"].v[i] IN
          /\ IsDict(e)
          /\ \A k \in 1..Len(ScoreKeys) : Has(e, ScoreKeys[k])
          /\ IsStr(e.v["name"]) /\ IsStr(e.v["comment"])
          /\ IsInt(e.v["task_success"]) /\ e.v["task_success"].v \in ratings
          /\ IsInt(e.v["instruction_following"]) /\ e.v["instruction_following"].v \in ratings
    /\ Has(r, "evaluation") /\ IsDict(r.v["evaluation"])
    /\ Has(r.v["evaluation"], "best_diff")
    /\ IsInt(r.v["evaluation"].v["best_diff"])
    /\ r.v["evaluation"].v["best_diff"].v \in bests

\* C8 as stated: every result returned has four entries with ratings in 1..5 and a
\* best-diff index in 1..4.
C8_ResultInRange ==
    (Acted("parse_response") /\ outcome = "running")
    => HasResultShape(analysis_results, 1..5, 1..4)

\* C8, amended: the result has that shape with ratings in 1..5 and best-diff in 1..4
\* when the span of the reply is a JSON object of that shape, and has it with both
\* ratings 0 and best-diff 0 when the span does not parse.
C8_ResultShape ==
    Acted("parse_response")
    => /\ outcome = "running"
       /\ Unparseable(content) => HasResultShape(analysis_results, {0}, {0})
       /\ (/\ ObjectStarts(content) # {}
           /\ \A i \in 1..(FirstObject(content).start - 1) : content[i] # "{"
           /\ \A i \in FirstObject(content).next..Len(content) : content[i] # "}"
           /\ HasResultShape(FirstObject(content).val, 1..5, 1..4))
          => HasResultShape(analysis_results, 1..5, 1..4)

C8_Witness ==
    /\ Acted("parse_response")
    /\ content = Preamble \o Dumps(GoodResult) \o <<" ", "}">>
    /\ Unparseable(content)
    /\ HasResultShape(analysis_results, {0}, {0})
    /\ ~HasResultShape(analysis_results, 1..5, 1..4)

-----------------------------------------------------------------------------
(* Properties of the runs *)

\* the placeholder data: every slot scored 0/0 with the error comment, and the
\* error summary
HoldsPlaceholder(doc) ==
    /\ IsMetadataRecord(doc)
    /\ Len(SlotsOf(doc)) = 4
    /\ \A j \in 1..4 :
          LET slot == SlotsOf(doc)[j] IN
          /\ \A f \in ScoreFields : Has(slot, f)
          /\ slot.v["task_success"] = JInt(0)
          /\ slot.v["instruction_following"] = JInt(0)
          /\ slot.v["comment"] = JStr("Error parsing LLM response")
    /\ \A f \in SummaryFields : Has(doc.v["evaluation"], f)
    /\ doc.v["evaluation"].v["best_diff"] = JInt(0)
    /\ doc.v["evaluation"].v["preference_rationale"] = JStr("Error parsing LLM response")
    /\ doc.v["evaluation"].v["improved_diff"] = JStr("")

\* C4: when the commands, the bootstrapper and the report loader succeeded and the
\* reply fails to parse, the process does not abort; it goes on to the merge and ends
\* normally with the placeholder data in the metadata file.
C4_DegradedRunCompletes ==
    (Acted("parse_response") /\ parse_failed)
    => /\ outcome \in {"running", "ok"}
       /\ pc \in {"update_metadata", "end"}
       /\ outcome = "ok" => HoldsPlaceholder(CurrentFile)

\* the same, for the runs whose template has its slots in the order diff_1..diff_4
C4_DegradedRunNaturalOrder ==
    (/\ Acted("parse_response") /\ parse_failed
     /\ metadata_base = Template(NaturalOrder, "template text"))
    => /\ outcome \in {"running", "ok"}
       /\ pc \in {"update_metadata", "end"}
       /\ outcome = "ok" => HoldsPlaceholder(CurrentFile)

\* C5: when the k-th command returns non-zero the process exits at once with a
\* non-zero status: the k-th is the last command executed, commands 1..k-1 have run
\* (their reports remain), and the bootstrapper, the report loader, the model call
\* and the merge do not run.
C5_HaltOnCommandFailure ==
    \A k \in 1..Len(executed) :
        executed[k].returncode # 0
        => /\ k = Len(executed)
           /\ outcome = "sys.exit(1)" /\ pc = "commands"
           /\ \A i \in 1..k : executed[i].command = i
           /\ \A i \in 1..(k - 1) : executed[i].returncode = 0
           /\ \A i \in 1..k : executed[i].wrote => (i - 1) \in report_files
           /\ steps_run = {"init_llm", "commands"}
           /\ metadata_files = at_start
           /\ task_folder = "" /\ task_data = JNull /\ reports = {}
           /\ content = <<>> /\ analysis_results = JNull
           /\ ~ENABLED (RunCommand \/ Bootstrap \/ LoadTaskData \/ LoadReports
                          \/ InvokeLLM \/ ParseResponse \/ UpdateMetadata)

C5_Witness ==
    /\ Len(executed) = 4
    /\ executed[4].returncode # 0
    /\ outcome = "sys.exit(1)"
    /\ executed[2].wrote /\ executed[3].wrote
    /\ report_files = {1, 2}
    /\ task_folders = {}

\* C6: after the bootstrapper has run again for a ticket whose metadata file holds the
\* evaluation of a previous run, the file is the template with the task fields copied
\* in and a generated task_id; nothing of the previous evaluation is left.
C6_RerunResetsFromTemplate ==
    (Acted("bootstrap") /\ task_folder # "" /\ ~Acted("update_metadata"))
    => LET doc == CurrentFile
           base == metadata_base
           details == {TaskDetailFields[k] : k \in 1..Len(TaskDetailFields)}
       IN  /\ IsMetadataRecord(doc)
           /\ doc.v["evaluation"] = base.v["evaluation"]
           /\ Len(SlotsOf(doc)) = Len(SlotsOf(base))
           /\ \A j \in 1..4 :
                 /\ Without(SlotsOf(doc)[j], {DiffFields[j]})
                       = Without(SlotsOf(base)[j], {DiffFields[j]})
                 /\ SlotsOf(doc)[j].v[DiffFields[j]]
                       = DictGet(task_data_file, DiffFields[j], JStr(""))
           /\ \A f \in details :
                 doc.v["task_details"].v[f] = DictGet(task_data_file, f, JStr(""))
           /\ Without(doc.v["task_details"], details) = Without(base.v["task_details"], details)
           /\ \E id \in TaskIds : doc.v["task_id"] = JStr(id)
           /\ doc.v["jira"] = JStr(task_folder)
           /\ Without(doc, {"task_id", "jira", "task_details", "implementations"})
                 = Without(base, {"task_id", "jira", "task_details", "implementations"})

C6_Witness ==
    /\ run = 2
    /\ Acted("bootstrap") /\ task_folder = "T-1" /\ ~Acted("update_metadata")
    /\ FileBefore # NoFile
    /\ FileBefore.v["evaluation"] = FullEvaluation
    /\ SlotsOf(FileBefore)[3].v["comment"] = JStr("comment 3")
    /\ CurrentFile.v["evaluation"] = EmptyEvaluation
    /\ SlotsOf(CurrentFile)[3].v["comment"] = JStr("")

\* C10: a copied field that the task definition lacks is present in the metadata
\* record and equal to the empty string after the bootstrapper.
C10_AbsentFieldsEmpty ==
    (Acted("bootstrap") /\ outcome = "running")
    => /\ \A k \in 1..Len(TaskDetailFields) :
             ~Has(task_data_file, TaskDetailFields[k])
             => /\ Has(CurrentFile.v["task_details"], TaskDetailFields[k])
                /\ CurrentFile.v["task_details"].v[TaskDetailFields[k]] = JStr("")
       /\ \A k \in 1..Len(DiffFields) :
             ~Has(task_data_file, DiffFields[k])
             => /\ Has(SlotsOf(CurrentFile)[k], DiffFields[k])
                /\ SlotsOf(CurrentFile)[k].v[DiffFields[k]] = JStr("")

C10_Witness ==
    /\ Acted("bootstrap") /\ outcome = "running"
    /\ metadata_base = Template(NaturalOrder, "template text")
    /\ ~Has(task_data_file, "reference_implementation_diff")
    /\ ~Has(task_data_file, "diff_2")
    /\ Has(task_data_file, "repo_name")
    /\ CurrentFile.v["task_details"].v["reference_implementation_diff"] = JStr("")
    /\ CurrentFile.v["task_details"].v["repo_name"] = JStr("task repo_name")
    /\ SlotsOf(CurrentFile)[2].v["diff_2"] = JStr("")

-----------------------------------------------------------------------------
(* The bootstrapper and the merge together *)

\* slot n holds the task's diff_n text and the scores and comment of impl_n
EachSlotHoldsItsOwn(doc, r) ==
    \A n \in 1..4 : \A i \in 1..4 :
        EntriesOf(r)[i].v["name"] = JStr(ImplNames[n])
        => /\ Has(SlotsOf(doc)[n], DiffFields[n])
           /\ SlotsOf(doc)[n].v[DiffFields[n]] = DictGet(task_data_file, DiffFields[n], JStr(""))
           /\ SameScores(SlotsOf(doc)[n], EntriesOf(r)[i])

\* C11: in a full run, whatever the order in which the template's four slots are
\* pre-keyed, the merge of a result naming impl_1..impl_4 puts the scores and comment
\* of impl_n into the slot the bootstrapper wrote the task's diff_n into (array
\* position n-1), so that no implementation's scores are overwritten by another's.
C11_ScoresFollowBootstrappedDiff ==
    (Acted("update_metadata") /\ outcome = "ok" /\ NamesAllFour(analysis_results))
    => EachSlotHoldsItsOwn(CurrentFile, analysis_results)

\* the same, for the runs whose template has its slots in the order diff_1..diff_4
C11_ScoresFollowNaturalOrder ==
    (/\ Acted("update_metadata") /\ outcome = "ok" /\ NamesAllFour(analysis_results)
     /\ metadata_base = Template(NaturalOrder, "template text"))
    => EachSlotHoldsItsOwn(CurrentFile, analysis_results)

====
